---- MODULE Spec2Model ----
(***************************************************************************)
(* Model of app.py, the "Share of Model Report" dashboard: a cached CSV    *)
(* load that coerces rank_1_survived_ai and derives a category per         *)
(* keyword, followed by a script run per filter selection that computes    *)
(* the top-line metrics, the per-category breakdown and the table of       *)
(* failing keywords.                                                       *)
(*                                                                         *)
(* Text is a sequence of one-character strings, so that substring          *)
(* matching, startswith and the list-literal evaluation are computed.      *)
(***************************************************************************)
EXTENDS Integers, Sequences, FiniteSets

VARIABLES
    source,             \* share_of_model_data.csv on disk: [kind, rows]
    cache,              \* st.cache_data entry of load_data: [hit, value]
    reads,              \* number of times pd.read_csv has been executed
    pc,                 \* where the last script run ended
    ui,                 \* messages the last script run rendered
    data_df,            \* line 41
    categories,         \* line 51 (order of first appearance)
    selected_category,  \* line 52
    filtered_df,        \* lines 57-60
    total_keywords,     \* line 63
    survived_count,     \* line 64
    survival_rate,      \* line 65
    at_risk_count,      \* line 66
    category_summary,   \* lines 90-92
    invisible_giants,   \* line 112
    display_df          \* lines 120-123 (the table handed to st.dataframe)

vars == <<source, cache, reads, pc, ui, data_df, categories, selected_category,
          filtered_df, total_keywords, survived_count, survival_rate,
          at_risk_count, category_summary, invisible_giants, display_df>>

-----------------------------------------------------------------------------
(* Bounds of the model *)

MaxRows == 2        \* rows of the varied part of the CSV
PadRows == 21       \* identical failing rows appended to exceed head(20)
MaxChunks == 2      \* chunks concatenated into a keyword
MaxReads == 3       \* cap of the read counter

-----------------------------------------------------------------------------
(* Text helpers *)

NaN == <<"<NaN>">>          \* an empty CSV cell as read_csv loads it (float nan)

SeqSum(f, n) ==
    LET S[i \in 0..n] == IF i = 0 THEN 0 ELSE S[i - 1] + f[i]
    IN S[n]

\* s[i..] starts with t
StartsAt(s, i, t) ==
    /\ i + Len(t) - 1 <= Len(s)
    /\ \A k \in 1..Len(t) : s[i + k - 1] = t[k]

\* str.startswith
startswith(s, t) == StartsAt(s, 1, t)

\* re.search of a literal: t occurs somewhere in s (case-sensitive)
Occurs(s, t) == \E i \in 1..Len(s) : StartsAt(s, i, t)

\* Series.str.contains(pat) for a pattern that is an alternation of literals
str_contains(s, alternatives) == \E t \in alternatives : Occurs(s, t)

-----------------------------------------------------------------------------
(* Keyword tokens of the category rules, lines 29-31 *)

crm == <<"c","r","m">>
software == <<"s","o","f","t","w","a","r","e">>
saas == <<"s","a","a","s">>
food == <<"f","o","o","d">>
air_fryer == <<"a","i","r"," ","f","r","y","e","r">>
recipe == <<"r","e","c","i","p","e">>
shoe == <<"s","h","o","e">>
boot == <<"b","o","o","t">>
hiking == <<"h","i","k","i","n","g">>
apparel == <<"a","p","p","a","r","e","l">>

\* the three regular expressions, each an alternation of literals
patterns == << {crm, software, saas},
               {food, air_fryer, recipe},
               {shoe, boot, hiking, apparel} >>

choices == <<"Software/SaaS", "Consumer Goods/Food", "Apparel/Footwear">>

Other == "Other"

\* conditions of one row: one boolean per rule, in the order of the list
conditions(keyword) ==
    [i \in 1..Len(patterns) |-> str_contains(keyword, patterns[i])]

\* a select that lets a later matching condition override an earlier one
np_select_last(condlist, choicelist, default) ==
    IF \E i \in 1..Len(condlist) : condlist[i]
    THEN LET last == CHOOSE i \in 1..Len(condlist) :
                        /\ condlist[i]
                        /\ \A j \in (i + 1)..Len(condlist) : ~condlist[j]
         IN choicelist[last]
    ELSE default

\* np.select: the choice of the first condition that is true, else default
np_select(condlist, choicelist, default) ==
    IF \E i \in 1..Len(condlist) : condlist[i]
    THEN LET first == CHOOSE i \in 1..Len(condlist) :
                        /\ condlist[i]
                        /\ \A j \in 1..(i - 1) : ~condlist[j]
         IN choicelist[first]
    ELSE default

\* a select called without default='Other' (np.select then fills in 0)
CategorizeNoDefault(keyword) == np_select(conditions(keyword), choices, "0")

\* the value of df['category'] for one row
Categorize(keyword) == np_select(conditions(keyword), choices, Other)

-----------------------------------------------------------------------------
(* rank_1_survived_ai: pd.read_csv's inference, then astype(bool), lines 20-23 *)

\* the words read_csv itself parses as booleans (its default true/false values)
CsvTrueWords == {"True", "TRUE", "true"}
CsvFalseWords == {"False", "FALSE", "false"}
CsvIntWords == {"0", "1"}

\* the dtype read_csv gives the column: decided by the column as a whole
ColumnDtype(cells) ==
    IF \A i \in 1..Len(cells) : cells[i] \in CsvTrueWords \cup CsvFalseWords
    THEN "bool"
    ELSE IF \A i \in 1..Len(cells) : cells[i] \in CsvIntWords
    THEN "int64"
    ELSE "object"

\* astype(bool) of one element of a column of that dtype
astype_bool(cell, dtype) ==
    CASE dtype = "bool"  -> cell \in CsvTrueWords
      [] dtype = "int64" -> cell # "0"
      [] OTHER           -> cell # ""       \* bool(str): any non-empty text

-----------------------------------------------------------------------------
(* llm_recs: ', '.join(eval(x)) if pd.notnull(x) and x.startswith('[') else x *)

pd_notnull(x) == x # NaN

RECURSIVE SkipWs(_, _)
SkipWs(x, i) ==
    IF i <= Len(x) /\ x[i] = " " THEN SkipWs(x, i + 1) ELSE i

\* the position of the quote closing a string literal opened before i, or 0
RECURSIVE ClosingQuote(_, _)
ClosingQuote(x, i) ==
    IF i > Len(x) THEN 0
    ELSE IF x[i] = "'" THEN i
    ELSE ClosingQuote(x, i + 1)

Raise == [raised |-> TRUE, value |-> <<>>]
Return(v) == [raised |-> FALSE, value |-> v]

\* the items of a list display from position i on (after '[' or after ','),
\* for lists of single-quoted string literals; anything else raises
\* (SyntaxError or NameError in eval, TypeError in join)
RECURSIVE EvalItems(_, _, _)
EvalItems(x, i, acc) ==
    LET a == SkipWs(x, i) IN
    IF a > Len(x) THEN Raise
    ELSE IF x[a] = "]"
         THEN IF SkipWs(x, a + 1) > Len(x) THEN Return(acc) ELSE Raise
    ELSE IF x[a] # "'" THEN Raise
    ELSE LET q == ClosingQuote(x, a + 1) IN
         IF q = 0 THEN Raise
         ELSE LET item == SubSeq(x, a + 1, q - 1)
                  b == SkipWs(x, q + 1)
              IN IF b > Len(x) THEN Raise
                 ELSE IF x[b] = "," THEN EvalItems(x, b + 1, Append(acc, item))
                 ELSE IF x[b] = "]"
                      THEN IF SkipWs(x, b + 1) > Len(x)
                           THEN Return(Append(acc, item)) ELSE Raise
                 ELSE Raise

\* eval(x) for a text that begins with '['
eval(x) ==
    LET a == SkipWs(x, 2) IN
    IF a <= Len(x) /\ x[a] = "," THEN Raise       \* "[,": SyntaxError
    ELSE EvalItems(x, 2, <<>>)

\* ', '.join(items)
RECURSIVE join(_, _)
join(sep, items) ==
    IF Len(items) = 0 THEN <<>>
    ELSE IF Len(items) = 1 THEN items[1]
    ELSE items[1] \o sep \o join(sep, Tail(items))

\* the lambda of line 121
format_recs(x) ==
    IF pd_notnull(x) /\ startswith(x, <<"[">>)
    THEN LET e == eval(x) IN
         IF e.raised THEN Raise ELSE Return(join(<<",", " ">>, e.value))
    ELSE Return(x)

-----------------------------------------------------------------------------
(* Numbers: percentages are kept as exact fractions in lowest terms *)

RECURSIVE GCD(_, _)
GCD(a, b) == IF b = 0 THEN a ELSE GCD(b, a % b)

Frac(n, d) == LET g == GCD(n, d) IN [num |-> n \div g, den |-> d \div g]

Zero == [num |-> 0, den |-> 1]

\* 0 <= f <= 100
InPercentRange(f) == f.den > 0 /\ 0 <= f.num /\ f.num <= 100 * f.den

-----------------------------------------------------------------------------
(* DataFrame operations used by the script *)

EmptyDataFrame == <<>>                      \* pd.DataFrame()

\* df.empty
empty(df) == Len(df) = 0

\* df[column].sum() of the boolean column
SurvivedSum(df) ==
    SeqSum([i \in 1..Len(df) |-> IF df[i].rank_1_survived_ai THEN 1 ELSE 0], Len(df))

\* df['category'].unique(): the values in order of first appearance
RECURSIVE unique(_)
unique(df) ==
    IF Len(df) = 0 THEN <<>>
    ELSE LET n == Len(df)
             front == unique(SubSeq(df, 1, n - 1))
         IN IF \E i \in 1..Len(front) : front[i] = df[n].category
            THEN front
            ELSE Append(front, df[n].category)

Range(s) == {s[i] : i \in 1..Len(s)}

\* df[df['category'] == c]
WhereCategory(df, c) == LET Test(r) == r.category = c IN SelectSeq(df, Test)

\* df[df['rank_1_survived_ai'] == False]
WhereFailed(df) == LET Test(r) == r.rank_1_survived_ai = FALSE IN SelectSeq(df, Test)

\* df.head(n)
head(df, n) == SubSeq(df, 1, IF Len(df) < n THEN Len(df) ELSE n)

\* df.groupby('category')['rank_1_survived_ai'].mean() * 100: one entry per
\* category that occurs in df
groupby_mean_pct(df) ==
    [c \in {df[i].category : i \in 1..Len(df)} |->
        LET g == WhereCategory(df, c) IN Frac(100 * SurvivedSum(g), Len(g))]

-----------------------------------------------------------------------------
(* load_data, lines 16-39 *)

\* the table built by lines 20-36 from the rows of the CSV
BuildTable(rows) ==
    LET dtype == ColumnDtype([i \in 1..Len(rows) |-> rows[i].rank_1_survived_ai])
    IN [i \in 1..Len(rows) |->
          [index |-> i - 1,
           keyword |-> rows[i].keyword,
           google_top_1_brand |-> rows[i].google_top_1_brand,
           llm_recs |-> rows[i].llm_recs,
           rank_1_survived_ai |-> astype_bool(rows[i].rank_1_survived_ai, dtype),
           category |-> Categorize(rows[i].keyword)]]

ErrorNotFound == "error: data file not found"
WarningEmpty == "warning: dataframe is empty"
Exception == "uncaught exception"

\* the body of load_data: only FileNotFoundError is caught
LoadBody(src) ==
    CASE src.kind = "missing" ->
            [raised |-> FALSE, value |-> EmptyDataFrame, messages |-> {ErrorNotFound}]
      [] src.kind = "unparseable" ->
            [raised |-> TRUE, value |-> EmptyDataFrame, messages |-> {}]
      [] OTHER ->
            [raised |-> FALSE, value |-> BuildTable(src.rows), messages |-> {}]

NoCache == [hit |-> FALSE, value |-> EmptyDataFrame, messages |-> {}]

\* a load_data that runs its body on every call
load_data_uncached(c, src) ==
    LET b == LoadBody(src) IN
    [raised |-> b.raised, value |-> b.value, messages |-> b.messages,
     cache |-> c, read |-> TRUE]

\* @st.cache_data load_data(): a hit returns the stored value (and replays the
\* stored messages); a miss runs the body and stores what it returns; an
\* exception is not stored
load_data(c, src) ==
    IF c.hit
    THEN [raised |-> FALSE, value |-> c.value, messages |-> c.messages,
          cache |-> c, read |-> FALSE]
    ELSE LET b == LoadBody(src) IN
         [raised |-> b.raised, value |-> b.value, messages |-> b.messages,
          cache |-> IF b.raised THEN c
                    ELSE [hit |-> TRUE, value |-> b.value, messages |-> b.messages],
          read |-> TRUE]

-----------------------------------------------------------------------------
(* The script body, lines 45-127 *)

All == "All"

\* options listing every category, present in the table or not
OptionsFixed(df) == <<All>> \o choices \o <<Other>>

\* line 54: the options handed to st.sidebar.selectbox
Options(df) == <<All>> \o unique(df)

\* st.sidebar.selectbox: the user's choice when it is one of the options, else
\* the first option (also the value of the first run)
selectbox(options, choice) ==
    IF choice \in Range(options) THEN choice ELSE options[1]

\* lines 57-60
FilteredDf(df, selected) ==
    IF selected # All THEN WhereCategory(df, selected) ELSE df

\* a rate scaled to percent twice
SurvivalRateScaledTwice(survived, total) ==
    IF total > 0 THEN Frac(survived * 100 * 100, total) ELSE Zero

\* line 65
SurvivalRate(survived, total) ==
    IF total > 0 THEN Frac(survived * 100, total) ELSE Zero

\* line 66
AtRiskCount(total, survived) == total - survived

\* the names bound by lines 51-66, given data_df and the widget's choice
Metrics(df, choice) ==
    LET opts == Options(df)
        sel == selectbox(opts, choice)
        view == FilteredDf(df, sel)
        total == Len(view)
        survived == SurvivedSum(view)
    IN [data_df |-> df,
        categories |-> Tail(opts),
        selected_category |-> sel,
        filtered_df |-> view,
        total_keywords |-> total,
        survived_count |-> survived,
        survival_rate |-> SurvivalRate(survived, total),
        at_risk_count |-> AtRiskCount(total, survived)]

\* a breakdown computed over the filtered view
CategorySummaryOfView(ns) == groupby_mean_pct(ns.filtered_df)

\* lines 90-92, evaluated in the namespace ns of the run
CategorySummary(ns) == groupby_mean_pct(ns.data_df)

\* line 112
InvisibleGiants(ns) == WhereFailed(ns.filtered_df)

Top == 20

\* lines 117-123: the formatted rows shown, or raised when the lambda raises
\* on some row of invisible_giants (apply runs before head)
DisplayDf(giants) ==
    LET f == [i \in 1..Len(giants) |-> format_recs(giants[i].llm_recs)] IN
    IF \E i \in 1..Len(giants) : f[i].raised
    THEN Raise
    ELSE Return(head([i \in 1..Len(giants) |->
                        [keyword |-> giants[i].keyword,
                         google_top_1_brand |-> giants[i].google_top_1_brand,
                         llm_recs |-> f[i].value]], Top))

NoSummary == [c \in {} |-> Zero]

\* what a run leaves of the names it never binds
NothingComputed ==
    /\ categories' = <<>>
    /\ selected_category' = All
    /\ filtered_df' = EmptyDataFrame
    /\ total_keywords' = 0
    /\ survived_count' = 0
    /\ survival_rate' = Zero
    /\ at_risk_count' = 0
    /\ category_summary' = NoSummary
    /\ invisible_giants' = EmptyDataFrame
    /\ display_df' = EmptyDataFrame

\* one run of the whole script with the widget holding `choice`
ScriptRun(choice) ==
    LET ld == load_data(cache, source) IN
    /\ cache' = ld.cache
    /\ reads' = IF ld.read /\ reads < MaxReads THEN reads + 1 ELSE reads
    /\ UNCHANGED source
    /\ IF ld.raised
       THEN \* line 41 raises: the run ends in the exception
            /\ pc' = "load_raised"
            /\ ui' = {Exception}
            /\ data_df' = EmptyDataFrame
            /\ NothingComputed
       ELSE IF empty(ld.value)
       THEN \* lines 126-127
            /\ pc' = "empty_state"
            /\ ui' = ld.messages \cup {WarningEmpty}
            /\ data_df' = ld.value
            /\ NothingComputed
       ELSE LET ns == Metrics(ld.value, choice)
                giants == InvisibleGiants(ns)
                shown == DisplayDf(giants)
            IN /\ data_df' = ns.data_df
               /\ categories' = ns.categories
               /\ selected_category' = ns.selected_category
               /\ filtered_df' = ns.filtered_df
               /\ total_keywords' = ns.total_keywords
               /\ survived_count' = ns.survived_count
               /\ survival_rate' = ns.survival_rate
               /\ at_risk_count' = ns.at_risk_count
               /\ category_summary' = CategorySummary(ns)
               /\ invisible_giants' = giants
               /\ display_df' = shown.value
               /\ pc' = IF shown.raised THEN "recs_raised" ELSE "rendered"
               /\ ui' = ld.messages \cup {"metrics", "chart"}
                          \cup (IF shown.raised THEN {Exception} ELSE {"table"})

-----------------------------------------------------------------------------
(* Inputs *)

kw_crm_boot == crm \o <<" ">> \o boot
kw_CRM == <<"C","R","M">>

brand == <<"A","c","m","e">>

recs_ab == <<"[","'","a","'",","," ","'","b","'","]">>     \* ['a', 'b']
recs_a == <<"[","'","a","'","]">>                           \* ['a']
recs_none == <<"[","]">>                                    \* []
recs_trailing == <<"[","'","a","'",",","]">>                \* ['a',]
recs_unclosed == <<"[","'","a","'">>                        \* ['a'
recs_name == <<"[","a","]">>                                \* [a]
recs_open == <<"[">>                                        \* [
recs_plain == <<"a",","," ","b">>                           \* a, b

\* all sequences over S of length lo..hi
SeqsOf(S, lo, hi) == UNION {[1..n -> S] : n \in lo..hi}

CsvRows(keywords, recs, cells) ==
    [keyword : keywords, google_top_1_brand : {brand},
     llm_recs : recs, rank_1_survived_ai : cells]

PadRow == [keyword |-> boot, google_top_1_brand |-> brand,
           llm_recs |-> recs_a, rank_1_survived_ai |-> "False"]

Pad(n) == [i \in 1..n |-> PadRow]

OkSource(rows) == [kind |-> "ok", rows |-> rows]
Missing == [kind |-> "missing", rows |-> <<>>]
Unparseable == [kind |-> "unparseable", rows |-> <<>>]

\* the dashboard's inputs: no file, a file read_csv cannot load, or a table
MainSources ==
    {Missing, Unparseable} \cup
    {OkSource(t) :
        t \in SeqsOf(CsvRows({kw_crm_boot, food, boot, kw_CRM},
                             {recs_ab, recs_unclosed}, {"True", "False"}),
                     0, MaxRows)}

InitWith(sources) ==
    /\ source \in sources
    /\ cache = NoCache
    /\ reads = 0
    /\ pc = "start"
    /\ ui = {}
    /\ data_df = EmptyDataFrame
    /\ categories = <<>>
    /\ selected_category = All
    /\ filtered_df = EmptyDataFrame
    /\ total_keywords = 0
    /\ survived_count = 0
    /\ survival_rate = Zero
    /\ at_risk_count = 0
    /\ category_summary = NoSummary
    /\ invisible_giants = EmptyDataFrame
    /\ display_df = EmptyDataFrame

Init == InitWith(MainSources)

\* keywords for the category rules: every token, an upper-case token, and
\* pieces that form a token only when concatenated
Chunks == {crm, software, <<"s","a">>, <<"a","s">>, food, air_fryer, recipe,
           shoe, boot, hiking, apparel, kw_CRM, <<" ">>, <<"x">>}

RECURSIVE Concat(_)
Concat(ss) == IF Len(ss) = 0 THEN <<>> ELSE ss[1] \o Concat(Tail(ss))

Keywords == {Concat(cs) : cs \in SeqsOf(Chunks, 1, MaxChunks)}

InitCategorize ==
    InitWith({OkSource(<<r>>) : r \in CsvRows(Keywords, {recs_ab}, {"True", "False"})})

\* tables for the deep dive: every shape of llm_recs, short and longer than Top
kw_best_crm_software ==
    <<"b","e","s","t"," ">> \o crm \o <<" ">> \o software

RecsValues == {NaN, recs_plain, recs_none, recs_a, recs_ab, recs_trailing,
               recs_unclosed, recs_name, recs_open}

InitDeepDive ==
    InitWith({OkSource(t \o Pad(n)) :
                t \in SeqsOf(CsvRows({kw_best_crm_software}, RecsValues,
                                     {"True", "False"}), 1, MaxRows),
                n \in {0, PadRows}})

\* columns for the coercion: texts read_csv parses itself and texts it does not
Cells == {"True", "False", "true", "false", "yes", "no", "1", "0"}

InitBool ==
    InitWith({OkSource(t) : t \in SeqsOf(CsvRows({food}, {recs_a}, Cells), 1, MaxRows)})

-----------------------------------------------------------------------------
(* Actions *)

\* the first run of the script in the process: the selectbox shows its first option
FirstRun ==
    /\ pc = "start"
    /\ ScriptRun(All)

\* the user picks an option of the selectbox rendered by the last run (line 52
\* ran, so the run reached the non-empty branch); Streamlit reruns the script
SelectCategory(c) ==
    /\ pc \in {"rendered", "recs_raised"}
    /\ c \in {All} \cup Range(categories)
    /\ ScriptRun(c)

\* the environment removes the CSV after it was loaded
RemoveSource ==
    /\ pc # "start"
    /\ source.kind = "ok"
    /\ source' = Missing
    /\ UNCHANGED <<cache, reads, pc, ui, data_df, categories, selected_category,
                   filtered_df, total_keywords, survived_count, survival_rate,
                   at_risk_count, category_summary, invisible_giants, display_df>>

Next ==
    \/ FirstRun
    \/ \E c \in {All, Other} \cup Range(choices) : SelectCategory(c)
    \/ RemoveSource

Spec == Init /\ [][Next]_vars

SpecCategorize == InitCategorize /\ [][Next]_vars

SpecDeepDive == InitDeepDive /\ [][Next]_vars

SpecBool == InitBool /\ [][Next]_vars

-----------------------------------------------------------------------------
(* Properties *)

FourCategories == {"Software/SaaS", "Consumer Goods/Food", "Apparel/Footwear", "Other"}

\* the runs that reached the non-empty branch (lines 46-123)
Ran == {"rendered", "recs_raised"}

Has(keyword, tokens) == \E t \in tokens : Occurs(keyword, t)

\* indices of data_df of category c, of the view of a selection, and the
\* survivors among a set of indices
RowsOf(c) == {i \in 1..Len(data_df) : data_df[i].category = c}
ViewOf(selected) ==
    {i \in 1..Len(data_df) : selected = All \/ data_df[i].category = selected}
Survivors(I) == {i \in I : data_df[i].rank_1_survived_ai}

\* f is the fraction 100 * part / whole
IsPercentOf(f, part, whole) == f.den > 0 /\ f.num * whole = 100 * part * f.den

\* C1: every loaded keyword has the category of the first rule that matches,
\* in the order Software/SaaS (crm, software, saas), Consumer Goods/Food (food,
\* air fryer, recipe), Apparel/Footwear (shoe, boot, hiking, apparel), and
\* Other when none matches; matching is case-sensitive substring matching.
C1_PriorityOrder ==
    \A i \in 1..Len(data_df) :
        LET k == data_df[i].keyword
            c == data_df[i].category
            sw == Has(k, {crm, software, saas})
            fd == Has(k, {food, air_fryer, recipe})
            ap == Has(k, {shoe, boot, hiking, apparel})
        IN /\ sw => c = "Software/SaaS"
           /\ ~sw /\ fd => c = "Consumer Goods/Food"
           /\ ~sw /\ ~fd /\ ap => c = "Apparel/Footwear"
           /\ ~sw /\ ~fd /\ ~ap => c = "Other"

\* a loaded keyword with a Software/SaaS token and an Apparel token
C1_Witness ==
    /\ pc = "rendered"
    /\ \E i \in 1..Len(data_df) :
          /\ Has(data_df[i].keyword, {crm, software, saas})
          /\ Has(data_df[i].keyword, {shoe, boot, hiking, apparel})
          /\ data_df[i].category = "Software/SaaS"

\* C2: after a successful load every record carries one of the four
\* categories, and the per-category record counts over the full table sum to
\* the total record count; the breakdown has no other category.
C2_Partition ==
    pc # "start" =>
        /\ \A i \in 1..Len(data_df) : data_df[i].category \in FourCategories
        /\ Cardinality(RowsOf("Software/SaaS")) + Cardinality(RowsOf("Consumer Goods/Food"))
             + Cardinality(RowsOf("Apparel/Footwear")) + Cardinality(RowsOf("Other"))
           = Len(data_df)
        /\ DOMAIN category_summary \subseteq FourCategories

\* a loaded table with a record in Other and a record in another category
C2_Witness ==
    /\ pc \in Ran
    /\ RowsOf("Other") # {}
    /\ Cardinality({data_df[i].category : i \in 1..Len(data_df)}) >= 2

\* the top-line metrics are those of the records of the selected category (all
\* records for "All"); the breakdown is that of the full table
C3_Metrics ==
    pc \in Ran =>
        LET view == ViewOf(selected_category) IN
        /\ total_keywords = Cardinality(view)
        /\ survived_count = Cardinality(Survivors(view))
        /\ IsPercentOf(survival_rate, survived_count, total_keywords)
        /\ at_risk_count = Cardinality(view \ Survivors(view))
        /\ DOMAIN category_summary = {c \in FourCategories : RowsOf(c) # {}}
        /\ \A c \in DOMAIN category_summary :
              IsPercentOf(category_summary[c], Cardinality(Survivors(RowsOf(c))),
                          Cardinality(RowsOf(c)))

\* C3: across any sequence of filter changes the top-line metrics are computed
\* over the records of the selected category only (all records for "All"), and
\* the per-category breakdown is computed over the full table and does not
\* change from one filter selection to the next.
C3_FilteredMetricsGlobalBreakdown ==
    /\ []C3_Metrics
    /\ [][(pc \in Ran /\ pc' \in Ran) => category_summary' = category_summary]_vars

\* a run filtered to one of several categories
C3_Witness ==
    /\ pc \in Ran
    /\ selected_category # All
    /\ total_keywords < Len(data_df)
    /\ Cardinality(DOMAIN category_summary) >= 2

\* C4 as stated: the rate lies in [0,100], a view of zero records reports rate 0
\* and at-risk 0, and when a category has no matching rows the chart still
\* shows all four categories.
C4_Original ==
    pc \in Ran =>
        /\ InPercentRange(survival_rate)
        /\ total_keywords = 0 => (survival_rate = Zero /\ at_risk_count = 0)
        /\ (\E c \in FourCategories : RowsOf(c) = {})
              => DOMAIN category_summary = FourCategories

\* C4 (amended): in every run the top-line rate lies in [0,100]; a run that
\* shows metrics never has a view of zero records (only categories with records
\* are selectable, and an empty table shows the warning and no metrics); the
\* chart shows exactly the categories that have a record in the full table.
C4_Amended ==
    /\ InPercentRange(survival_rate)
    /\ pc \in Ran =>
          /\ total_keywords > 0
          /\ DOMAIN category_summary = {c \in FourCategories : RowsOf(c) # {}}
          /\ \A c \in DOMAIN category_summary : InPercentRange(category_summary[c])
    /\ pc \notin Ran =>
          /\ total_keywords = 0 /\ survival_rate = Zero /\ at_risk_count = 0
          /\ "metrics" \notin ui /\ "chart" \notin ui

\* a run filtered to one category while Apparel/Footwear has no rows
C4_Witness ==
    /\ pc \in Ran
    /\ selected_category \notin {All, "Apparel/Footwear"}
    /\ RowsOf("Apparel/Footwear") = {}
    /\ "Apparel/Footwear" \notin DOMAIN category_summary
    /\ survival_rate.num > 0

\* C5: when the source does not exist or cannot be parsed, load_data does not
\* raise: the run shows an error message, gets an empty table and takes the
\* empty-state branch (warning, no metrics, chart or table).
C5_LoadErrorHandled ==
    [][(pc = "start" /\ source.kind # "ok") =>
          /\ pc' = "empty_state"
          /\ data_df' = EmptyDataFrame
          /\ ErrorNotFound \in ui'
          /\ WarningEmpty \in ui'
          /\ Exception \notin ui']_vars

\* what the claim says the formatted value of x is
ExpectedRecs(x) ==
    IF x # NaN /\ Len(x) > 0 /\ x[1] = "[" /\ ~eval(x).raised
    THEN join(<<",", " ">>, eval(x).value)
    ELSE x

\* C6: formatting the recommendation lists never aborts the run: a well-formed
\* list is replaced by its items joined with ", ", and a null value, a plain
\* text or a malformed list is shown as the original text.
C6_FormatNeverAborts ==
    pc # "start" =>
        /\ pc # "recs_raised"
        /\ pc = "rendered" =>
              \A i \in 1..Len(display_df) :
                 display_df[i].llm_recs = ExpectedRecs(invisible_giants[i].llm_recs)

TruthyText == {"True", "true", "yes", "1"}
FalsyText == {"False", "false", "no", "0"}

\* C7: the load turns every falsy text of rank_1_survived_ai into false and
\* every truthy text into true.
C7_CoercedByMeaning ==
    [][(pc = "start" /\ source.kind = "ok") =>
          /\ Len(data_df') = Len(source.rows)
          /\ \A i \in 1..Len(source.rows) :
                LET cell == source.rows[i].rank_1_survived_ai IN
                /\ cell \in FalsyText => data_df'[i].rank_1_survived_ai = FALSE
                /\ cell \in TruthyText => data_df'[i].rank_1_survived_ai = TRUE]_vars

\* C8: the source is read at most once; once load_data has returned, a rerun
\* triggered by a filter change reads nothing, gets the cached table, and
\* leaves the loaded records and their categories unchanged.
C8_LoadedOnce ==
    /\ [](reads <= 1)
    /\ [][cache.hit =>
            /\ cache' = cache
            /\ reads' = reads
            /\ data_df' = cache.value
            /\ (pc \in Ran => data_df' = data_df)]_vars

\* a rerun for a filter change after the CSV was removed from disk
C8_Witness ==
    /\ pc = "rendered"
    /\ source.kind = "missing"
    /\ selected_category # All
    /\ reads = 1
    /\ Len(data_df) > 0

\* the failing records of the view of the selection, in table order
FailingOfView ==
    LET Test(r) == /\ selected_category = All \/ r.category = selected_category
                   /\ ~r.rank_1_survived_ai
    IN SelectSeq(data_df, Test)

\* C9: for every filter selection the at-risk count is the number of records of
\* the filtered view that did not survive, and the failing-keywords table holds
\* exactly the first 20 of them in table order (all when fewer).
C9_FailingTable ==
    pc \in Ran =>
        LET failing == FailingOfView
            n == IF Len(failing) < 20 THEN Len(failing) ELSE 20
        IN /\ at_risk_count = Len(failing)
           /\ Len(display_df) = n
           /\ \A k \in 1..n :
                 /\ display_df[k].keyword = failing[k].keyword
                 /\ display_df[k].google_top_1_brand = failing[k].google_top_1_brand

\* the same, for the runs in which the table is rendered
C9_WhenRendered == pc = "rendered" => C9_FailingTable

\* C10: the selectable options are "All" plus the categories that have at least
\* one record in the loaded table; the selected filter is one of them and no
\* selectable category has zero records.
C10_OptionsArePresentCategories ==
    pc \in Ran =>
        /\ Range(categories) = {c \in FourCategories : RowsOf(c) # {}}
        /\ selected_category \in {All} \cup Range(categories)
        /\ \A c \in Range(categories) : RowsOf(c) # {}
        /\ selected_category # All => total_keywords > 0

\* a run with a category selected while another category has no record
C10_Witness ==
    /\ pc \in Ran
    /\ selected_category # All
    /\ Cardinality(Range(categories)) < 4
    /\ Len(categories) >= 2

====
